---- MODULE Spec2Model ----
(***************************************************************************)
(* A model of the ServiceTitan invoice pipeline: the token provider, the   *)
(* retrying fetch client, the cursor store, the two sink mergers and the   *)
(* run sequence of main().                                                 *)
(*                                                                         *)
(* Cells of a tabular sink keep the type they have in the program, since   *)
(* the mergers compare cells as Python compares them:                      *)
(*   invoice_id  [k, v]  k = "digits"    a str made of digits, value v     *)
(*                       k = "alpha"     a str that is no number ("a<v>")  *)
(*                       k = "num"       an int/float with value v         *)
(*                       k = "none_text" the str "None"                    *)
(*                       k = "null"      NaN / pd.NA / an empty cell       *)
(*   updated_at  [k, v]  k = "iso"  the str YYYY-MM-DDTHH:MM:SSZ of v      *)
(*                       k = "pd"   the str YYYY-MM-DD HH:MM:SS+00:00 of v *)
(*                       k = "dt"   a pandas Timestamp of instant v        *)
(*                       k = "nat_text" the str "NaT"                      *)
(*                       k = "null" NaN / pd.NA / NaT / an empty cell      *)
(* Instants are natural numbers: days for invoices and the cursor, seconds *)
(* for the token provider.                                                 *)
(***************************************************************************)
EXTENDS Integers, Sequences, FiniteSets, TLC

VARIABLES
    writer,        \* which sink merger is in use: "excel" | "gsheet"
    strictFormat,  \* pd.to_datetime parses with the first element's format (pandas >= 2) or per element
    sink,          \* the sink: [exists, rows]
    lastIncoming,  \* the rows handed to the last write_invoices
    preSink,       \* the sink before the last write_invoices
    onceSink,      \* the sink after the first of two successive identical writes
    writeResult,   \* what the last write_invoices returned: [rows_incoming, rows_written]
    mphase,        \* "idle" | "once" (one write done) | "twice" (the same write done again)
    clock,         \* the wall clock of the pipeline host, in days
    cursorFile,    \* content of the sync-state file: [k, v]
    upstream,      \* the API's invoices: id -> instant of last modification (-1: no such invoice)
    pc,            \* where main() is
    runs,          \* runs of main() started so far
    abortedAt,     \* the step at which the last aborted run stopped
    cursorAtStart, \* the sync-state file when the current run started
    cursorWritten, \* whether the current run has written the sync-state file
    writeReturned, \* whether write_invoices has returned in the current run
    lastSync,      \* what read_last_sync_utc returned to main()
    tokenCached,   \* whether this run's token provider holds a token
    sinceUsed,     \* updatedSince of the current run's fetch (-1: not fetched yet)
    fetchAt,       \* the clock when the current run's fetch issued its requests (-1: not yet)
    invoices,      \* the records fetch_updated_invoices returned
    df,            \* the frame transform returned
    crashedSince,  \* updatedSince of the runs that stopped after their fetch, since the last complete run
    shadowSink,    \* the sink as it would be had no run ever stopped before its end
    tnow,          \* time.time() of the token provider's host, in seconds
    cached,        \* OAuthClientCredentialsProvider._cached: [present, token, expires_at]
    issued,        \* tokens the identity server has issued so far
    issuedAt,      \* the instant the cached token was built
    issuedExpiresIn, \* the expires_in the cached token was issued with
    lastCall,      \* the last get_token call: what it saw and what it did
    rqPc,          \* ApiClient.request: "idle" | "attempt" | "waiting" | "returned" | "raised"
    rqAttempts,    \* what each attempt of the current request call ended with
    rqWaits,       \* the seconds slept between the attempts
    rqResult,      \* what the request call gave its caller: the JSON returned or the error raised
    pgPc,          \* get_paginated: "idle" | "running" | "done" | "raised"
    pgPage,        \* the local page
    pgSize,        \* the argument page_size
    pgRequests,    \* the Page and PageSize of each request made, in order
    pgServed,      \* the payloads the source answered with, in order
    pgYielded,     \* the items yielded so far
    pgError,       \* the error get_paginated ended with
    loaded,        \* the last SyncState.load: the file it read and what came of it
    lastRead,      \* the last read_last_sync_utc: the file before and after, the clock, the outcome
    fetched,       \* what fetch_updated_invoices gave its caller: [done, error, records]
    trIn,          \* the raw records handed to transform
    trOut,         \* what transform returned: [done, raised, columns, rows]
    ftPc,          \* fetch_updated_invoices: "idle" | "request" | "waiting" | "done" | "raised"
    ftSince,       \* its local updated_since (-1: not read)
    ftReads,       \* the read_last_sync_utc calls it has made
    ftPage,        \* the local page of its get_paginated
    ftLog,         \* every attempt of every request it has made, in order
    ftTokenValid   \* whether the provider holds a cached token that is still valid

sinkVars == <<writer, strictFormat, sink>>

mergeRunVars == <<lastIncoming, preSink, onceSink, writeResult, mphase>>

pipelineVars ==
    <<clock, cursorFile, upstream, pc, runs, abortedAt, cursorAtStart, cursorWritten,
      writeReturned, lastSync, tokenCached, sinceUsed, fetchAt, invoices, df, crashedSince, shadowSink>>

authVars == <<tnow, cached, issued, issuedAt, issuedExpiresIn, lastCall>>

requestVars == <<rqPc, rqAttempts, rqWaits, rqResult>>

pagingVars == <<pgPc, pgPage, pgSize, pgRequests, pgServed, pgYielded, pgError, fetched>>

storeVars == <<loaded, lastRead>>

transformVars == <<trIn, trOut>>

fetchVars == <<ftPc, ftSince, ftReads, ftPage, ftLog, ftTokenValid>>

vars ==
    <<sinkVars, mergeRunVars, pipelineVars, authVars, requestVars, pagingVars, storeVars,
      transformVars, fetchVars>>

\* The run variables of main() other than the clock and the file.
runVars ==
    <<upstream, pc, runs, abortedAt, cursorAtStart, cursorWritten, writeReturned, lastSync,
      tokenCached, sinceUsed, fetchAt, invoices, df, crashedSince, shadowSink>>

\* What an action of one part of the program leaves alone: the other parts.
outsideRun ==
    <<authVars, requestVars, pagingVars, storeVars, transformVars,
      fetchVars>>

outsideAuth ==
    <<sinkVars, mergeRunVars, pipelineVars, requestVars, pagingVars, storeVars, transformVars,
      fetchVars>>

outsideRequest ==
    <<sinkVars, mergeRunVars, pipelineVars, authVars, pagingVars, storeVars, transformVars,
      fetchVars>>

outsidePaging ==
    <<sinkVars, mergeRunVars, pipelineVars, authVars, requestVars, storeVars, transformVars,
      fetchVars>>

outsideTransform ==
    <<sinkVars, mergeRunVars, pipelineVars, authVars, requestVars, pagingVars, storeVars,
      fetchVars>>

outsideCursor ==
    <<sinkVars, mergeRunVars, runVars, authVars, requestVars, pagingVars, transformVars,
      fetchVars>>

outsideFetch ==
    <<sinkVars, mergeRunVars, runVars, authVars, requestVars, pagingVars, storeVars,
      transformVars>>

-----------------------------------------------------------------------------
(* Bounds *)
MaxTs == 2

-----------------------------------------------------------------------------
(* Cells and rows *)

NullCell == [k |-> "null", v |-> 0]

IdCell(kind, n) == [k |-> kind, v |-> n]

TsCell(kind, n) == [k |-> kind, v |-> n]

Row(id, ts, amt) == [invoice_id |-> id, updated_at |-> ts, total_amount |-> amt]

Amounts == {100}

\* Identifiers made of digits (upstream invoice ids are integers).
DigitIds == {1}

\* The rows RevenueTransformer.transform can produce: invoice_id is a str
\* (astype("string")) or NA, updated_at is the formatted ISO str or NaN.
NormalizedIds ==
    {IdCell("digits", n) : n \in DigitIds} \cup {IdCell("alpha", 1), NullCell}

NormalizedTs == {TsCell("iso", t) : t \in 1..MaxTs} \cup {NullCell}

NormalizedRows ==
    {Row(i, t, a) : i \in NormalizedIds, t \in NormalizedTs, a \in Amounts}

-----------------------------------------------------------------------------
(* pandas: sort_values(by=[invoice_id, updated_at], ascending=[True, False]) *)
(* and drop_duplicates(subset=[invoice_id], keep="first")                    *)

\* Order of invoice_id values in a column of mixed Python types: numbers
\* before strings, strings in code-point order ('0'..'9' < 'N' < 'a'),
\* missing values last (na_position="last").
IdRank(id) ==
    CASE id.k = "num" -> 0
      [] id.k = "digits" -> 1
      [] id.k = "none_text" -> 2
      [] id.k = "alpha" -> 3
      [] OTHER -> 4

IdBefore(a, b) ==
    \/ IdRank(a) < IdRank(b)
    \/ IdRank(a) = IdRank(b) /\ a.v < b.v

\* updated_at descending, missing values last.
TsBefore(a, b) ==
    \/ a.k # "null" /\ b.k = "null"
    \/ a.k # "null" /\ b.k # "null" /\ a.v > b.v

RowBefore(x, y) ==
    \/ IdBefore(x.invoice_id, y.invoice_id)
    \/ x.invoice_id = y.invoice_id /\ TsBefore(x.updated_at, y.updated_at)

\* x goes in front of the first row it sorts strictly before, so rows with
\* equal keys keep their order (the multi-key sort is a stable lexsort).
RECURSIVE InsertStable(_, _)
InsertStable(sorted, x) ==
    IF sorted = <<>> THEN <<x>>
    ELSE IF RowBefore(x, Head(sorted)) THEN <<x>> \o sorted
    ELSE <<Head(sorted)>> \o InsertStable(Tail(sorted), x)

RECURSIVE SortValues(_)
SortValues(rows) ==
    IF rows = <<>> THEN <<>>
    ELSE InsertStable(SortValues(SubSeq(rows, 1, Len(rows) - 1)), rows[Len(rows)])

\* keep="first": a row survives when no earlier row has an equal invoice_id
\* (Python equality: 1 # "1"; missing values count as equal to each other).
DropDuplicates(rows) ==
    LET keep == {i \in 1..Len(rows) :
                    \A j \in 1..(i - 1) : rows[j].invoice_id # rows[i].invoice_id}
        F[i \in 0..Len(rows)] ==
            IF i = 0 THEN <<>>
            ELSE IF i \in keep THEN Append(F[i - 1], rows[i]) ELSE F[i - 1]
    IN F[Len(rows)]

-----------------------------------------------------------------------------
(* ExcelWriter *)

\* pd.read_excel: the sheet's cells go through pandas' TextParser, which
\* infers each column's type: a column whose non-empty cells all read as
\* numbers becomes numeric, whatever the cell type was; any other column
\* keeps its cells as they are.
ReadExcelIdColumnNumeric(rows) ==
    /\ \E i \in 1..Len(rows) : rows[i].invoice_id.k # "null"
    /\ \A i \in 1..Len(rows) : rows[i].invoice_id.k \in {"null", "num", "digits"}

ReadExcelRow(r, numeric) ==
    IF numeric /\ r.invoice_id.k = "digits"
    THEN [r EXCEPT !.invoice_id = IdCell("num", r.invoice_id.v)]
    ELSE r

ReadExcel(rows) ==
    LET numeric == ReadExcelIdColumnNumeric(rows)
    IN [i \in 1..Len(rows) |-> ReadExcelRow(rows[i], numeric)]

\* combined["updated_at"].astype("string"): a str stays as it is, a missing
\* value stays missing, a Timestamp becomes its text.
AsTypeString(r) ==
    IF r.updated_at.k = "dt"
    THEN [r EXCEPT !.updated_at = TsCell("pd", r.updated_at.v)]
    ELSE r

ExcelMerge(s, incoming) ==
    LET combined == IF s.exists THEN ReadExcel(s.rows) \o incoming ELSE incoming
        merged == IF combined = <<>> THEN combined
                  ELSE DropDuplicates(SortValues(
                           [i \in 1..Len(combined) |-> AsTypeString(combined[i])]))
    IN [exists |-> TRUE, rows |-> merged]

-----------------------------------------------------------------------------
(* GoogleSheetsWriter *)

\* pd.to_datetime(errors="coerce") on the combined updated_at column.  With
\* a format inferred from the first parseable element (pandas >= 2) every
\* element in another format becomes NaT; otherwise each element is parsed
\* on its own.
FirstFormat(rows) ==
    LET idx == {i \in 1..Len(rows) : rows[i].updated_at.k \in {"iso", "pd"}}
    IN IF idx = {} THEN "none"
       ELSE rows[CHOOSE i \in idx : \A j \in idx : i <= j].updated_at.k

ToDatetimeCell(ts, strict, fmt) ==
    IF ts.k \in {"iso", "pd"} /\ (~strict \/ ts.k = fmt)
    THEN TsCell("dt", ts.v)
    ELSE NullCell

ToDatetime(rows, strict) ==
    LET fmt == FirstFormat(rows)
    IN [i \in 1..Len(rows) |->
           [rows[i] EXCEPT !.updated_at = ToDatetimeCell(rows[i].updated_at, strict, fmt)]]

\* combined.where(pd.notnull(combined), None).astype(str): every cell
\* becomes its str(); a missing invoice_id is written as "None", NaT as "NaT".
AsTypeStr(r) ==
    [r EXCEPT
        !.invoice_id = IF r.invoice_id.k = "null" THEN IdCell("none_text", 0) ELSE r.invoice_id,
        !.updated_at = IF r.updated_at.k = "dt" THEN TsCell("pd", r.updated_at.v)
                       ELSE TsCell("nat_text", 0)]

\* worksheet.get_all_values(): the rows under the header, every cell a str.
GetAllValues(s) == IF s.exists THEN s.rows ELSE <<>>

SheetMerge(s, incoming, strict) ==
    LET combined == GetAllValues(s) \o incoming
        merged == DropDuplicates(SortValues(ToDatetime(combined, strict)))
    IN [exists |-> TRUE, rows |-> [i \in 1..Len(merged) |-> AsTypeStr(merged[i])]]

WriteInvoicesResult(w, s, incoming, strict) ==
    IF w = "excel" THEN ExcelMerge(s, incoming) ELSE SheetMerge(s, incoming, strict)

AbsentSink == [exists |-> FALSE, rows |-> <<>>]

NoResult == [rows_incoming |-> 0, rows_written |-> 0]

-----------------------------------------------------------------------------
(* SyncState: the cursor file *)

\* Contents the sync-state file can have:
\*   "missing"        no file
\*   "unparsable"     unreadable, or not JSON
\*   "json_nonobject" valid JSON that is no object (a list, a number, null ...)
\*   "obj_no_field"   an object without last_sync_utc
\*   "obj_null"       last_sync_utc: null
\*   "obj_nonstring"  last_sync_utc: a number, a list ...
\*   "obj_blank"      last_sync_utc: "" or white space
\*   "obj_padded"     last_sync_utc: the timestamp of v with white space around it
\*   "obj_ts"         last_sync_utc: the timestamp of v, to the second
\*   "obj_ts_frac"    last_sync_utc: the timestamp of v with fractional seconds
CursorContent(kind, n) == [k |-> kind, v |-> n]

MissingFile == CursorContent("missing", 0)

NoCursor == [error |-> "none", present |-> FALSE, v |-> 0]

\* SyncState.load
Load(file) ==
    CASE file.k = "missing" -> NoCursor
      [] file.k = "unparsable" -> [error |-> "SyncStateError", present |-> FALSE, v |-> 0]
      [] file.k = "json_nonobject" -> [error |-> "AttributeError", present |-> FALSE, v |-> 0]
      [] file.k \in {"obj_no_field", "obj_null"} -> NoCursor
      [] file.k \in {"obj_nonstring", "obj_blank"} -> NoCursor
      [] OTHER -> [error |-> "none", present |-> TRUE, v |-> file.v]

\* datetime.now(timezone.utc).isoformat().replace("+00:00", "Z") at now:
\* isoformat() writes the microseconds unless they are 0 at that moment.
\* A text is [v, frac]: the instant, and whether it has fractional seconds.
NowIsoformatZ(now) == {[v |-> now, frac |-> f] : f \in BOOLEAN}

WholeSeconds(t) == [v |-> t, frac |-> FALSE]

\* SyncState.save: the file is overwritten with the one field.
Save(ts) == CursorContent(IF ts.frac THEN "obj_ts_frac" ELSE "obj_ts", ts.v)

\* timedelta(days=7), the clock counting days.
Lookback == 7

\* RevenueService.read_last_sync_utc, given that load did not raise.
ReadLastSyncUtc(file, now) ==
    LET state == Load(file)
    IN IF ~state.present THEN now - Lookback ELSE state.v

-----------------------------------------------------------------------------
(* The upstream API and RevenueTransformer, as far as a run needs them *)

UpstreamIds == {1}

NoInvoice == 0 - 1

\* GET .../invoices?updatedSince=since: the invoices modified at or after
\* since, as raw records, in id order.
RECURSIVE InvoicesSince(_, _, _)
InvoicesSince(up, since, ids) ==
    IF ids = {} THEN <<>>
    ELSE LET id == CHOOSE i \in ids : \A j \in ids : i <= j
             rest == InvoicesSince(up, since, ids \ {id})
         IN IF up[id] # NoInvoice /\ up[id] >= since
            THEN <<[id |-> id, modifiedOn |-> up[id]]>> \o rest
            ELSE rest

\* RevenueTransformer.transform on records that carry an integer id and a
\* parseable modifiedOn: invoice_id becomes the id's string, updated_at the
\* formatted ISO timestamp.
TransformRecord(inv) == Row(IdCell("digits", inv.id), TsCell("iso", inv.modifiedOn), 100)

Transform(records) == [i \in 1..Len(records) |-> TransformRecord(records[i])]

-----------------------------------------------------------------------------
(* main(): one run after another *)

MaxRuns == 2
MaxClock == 8

RunningPcs ==
    {"read_cursor", "get_token", "fetch", "transform", "write", "advance", "completion"}

NoSince == 0 - 1

\* The run stops at step p with an exception or a crash; nothing of the run
\* is kept but what it wrote to the sink and to the cursor file.
StopRun(p) ==
    /\ pc' = "aborted"
    /\ abortedAt' = p
    /\ crashedSince' = IF sinceUsed # NoSince /\ ~cursorWritten
                       THEN crashedSince \cup {sinceUsed} ELSE crashedSince

\* The scheduler starts main(); the objects of the run are constructed.
StartRun ==
    /\ pc \in {"idle", "done", "aborted"}
    /\ runs < MaxRuns
    /\ pc' = "read_cursor"
    /\ runs' = runs + 1
    /\ abortedAt' = "none"
    /\ cursorAtStart' = cursorFile
    /\ cursorWritten' = FALSE
    /\ writeReturned' = FALSE
    /\ lastSync' = NoSince
    /\ tokenCached' = FALSE
    /\ sinceUsed' = NoSince
    /\ fetchAt' = NoSince
    /\ invoices' = <<>>
    /\ df' = <<>>
    /\ UNCHANGED <<sinkVars, mergeRunVars, clock, cursorFile, upstream, crashedSince, shadowSink>>
    /\ UNCHANGED outsideRun

\* last_sync_utc = revenue_service.read_last_sync_utc()
MainReadLastSync ==
    /\ pc = "read_cursor"
    /\ IF Load(cursorFile).error # "none"
       THEN StopRun("read_cursor") /\ UNCHANGED lastSync
       ELSE /\ lastSync' = ReadLastSyncUtc(cursorFile, clock)
            /\ pc' = "get_token"
            /\ UNCHANGED <<abortedAt, crashedSince>>
    /\ UNCHANGED <<sinkVars, mergeRunVars, clock, cursorFile, upstream, runs, cursorAtStart,
                   cursorWritten, writeReturned, tokenCached, sinceUsed, fetchAt, invoices, df, shadowSink>>
    /\ UNCHANGED outsideRun

\* _ = token_provider.get_token(): the provider of this run has no token
\* yet, so the token endpoint is asked; it answers or the call raises.
MainGetToken ==
    /\ pc = "get_token"
    /\ \E ok \in BOOLEAN :
          IF ok
          THEN /\ tokenCached' = TRUE
               /\ pc' = "fetch"
               /\ UNCHANGED <<abortedAt, crashedSince>>
          ELSE StopRun("get_token") /\ UNCHANGED tokenCached
    /\ UNCHANGED <<sinkVars, mergeRunVars, clock, cursorFile, upstream, runs, cursorAtStart,
                   cursorWritten, writeReturned, lastSync, sinceUsed, fetchAt, invoices, df, shadowSink>>
    /\ UNCHANGED outsideRun

\* invoices = revenue_service.fetch_updated_invoices(): the cursor is read
\* again, the pages are drained, or a request fails for good.
MainFetchUpdatedInvoices ==
    /\ pc = "fetch"
    /\ IF Load(cursorFile).error # "none"
       THEN StopRun("fetch") /\ UNCHANGED <<sinceUsed, fetchAt, invoices>>
       ELSE LET since == ReadLastSyncUtc(cursorFile, clock)
            IN \E ok \in BOOLEAN :
                  /\ sinceUsed' = since
                  /\ fetchAt' = clock
                  /\ IF ok
                     THEN /\ invoices' = InvoicesSince(upstream, since, UpstreamIds)
                          /\ pc' = "transform"
                          /\ UNCHANGED <<abortedAt, crashedSince>>
                     ELSE /\ pc' = "aborted"
                          /\ abortedAt' = "fetch"
                          /\ crashedSince' = crashedSince \cup {since}
                          /\ UNCHANGED invoices
    /\ UNCHANGED <<sinkVars, mergeRunVars, clock, cursorFile, upstream, runs, cursorAtStart,
                   cursorWritten, writeReturned, lastSync, tokenCached, df, shadowSink>>
    /\ UNCHANGED outsideRun

\* df = transformer.transform(invoices)
MainTransform ==
    /\ pc = "transform"
    /\ df' = Transform(invoices)
    /\ pc' = "write"
    /\ UNCHANGED <<sinkVars, mergeRunVars, clock, cursorFile, upstream, runs, abortedAt,
                   cursorAtStart, cursorWritten, writeReturned, lastSync, tokenCached,
                   sinceUsed, fetchAt, invoices, crashedSince, shadowSink>>
    /\ UNCHANGED outsideRun

\* result = writer.write_invoices(df)
MainWriteInvoices ==
    /\ pc = "write"
    /\ sink' = ExcelMerge(sink, df)
    /\ writeReturned' = TRUE
    /\ pc' = "advance"
    /\ UNCHANGED <<writer, strictFormat, mergeRunVars, clock, cursorFile, upstream, runs,
                   abortedAt, cursorAtStart, cursorWritten, lastSync, tokenCached, sinceUsed, fetchAt,
                   invoices, df, crashedSince, shadowSink>>
    /\ UNCHANGED outsideRun

\* A main() that advances the cursor while write_invoices is still to run.
UpdateSyncStateBeforeWrite ==
    /\ pc \in {"write", "advance"}
    /\ \E now_utc \in NowIsoformatZ(clock) : cursorFile' = Save(now_utc)
    /\ cursorWritten' = TRUE
    /\ pc' = IF pc = "write" THEN "write" ELSE "completion"
    /\ shadowSink' = ExcelMerge(shadowSink, df)
    /\ crashedSince' = {}
    /\ UNCHANGED <<sinkVars, mergeRunVars, clock, upstream, runs, abortedAt, cursorAtStart,
                   writeReturned, lastSync, tokenCached, sinceUsed, fetchAt, invoices, df>>
    /\ UNCHANGED outsideRun

\* An update_sync_state_to_now that stores now minus the lookback window.
UpdateSyncStateToLookback ==
    /\ pc = "advance"
    /\ cursorFile' = Save(WholeSeconds(clock - Lookback))
    /\ cursorWritten' = TRUE
    /\ pc' = "completion"
    /\ shadowSink' = ExcelMerge(shadowSink, df)
    /\ crashedSince' = {}
    /\ UNCHANGED <<sinkVars, mergeRunVars, clock, upstream, runs, abortedAt, cursorAtStart,
                   writeReturned, lastSync, tokenCached, sinceUsed, fetchAt, invoices, df>>
    /\ UNCHANGED outsideRun

\* revenue_service.update_sync_state_to_now(), called by main() once
\* write_invoices has returned.
MainUpdateSyncStateToNow ==
    /\ pc = "advance"
    /\ \E now_utc \in NowIsoformatZ(clock) : cursorFile' = Save(now_utc)
    /\ cursorWritten' = TRUE
    /\ pc' = "completion"
    /\ shadowSink' = ExcelMerge(shadowSink, df)
    /\ crashedSince' = {}
    /\ UNCHANGED <<sinkVars, mergeRunVars, clock, upstream, runs, abortedAt, cursorAtStart,
                   writeReturned, lastSync, tokenCached, sinceUsed, fetchAt, invoices, df>>
    /\ UNCHANGED outsideRun

\* The closing log lines; main() returns.
MainComplete ==
    /\ pc = "completion"
    /\ pc' = "done"
    /\ UNCHANGED <<sinkVars, mergeRunVars, clock, cursorFile, upstream, runs, abortedAt,
                   cursorAtStart, cursorWritten, writeReturned, lastSync, tokenCached,
                   sinceUsed, fetchAt, invoices, df, crashedSince, shadowSink>>
    /\ UNCHANGED outsideRun

\* The step at pc raises, or the process is killed there.
MainAbort ==
    /\ pc \in RunningPcs
    /\ StopRun(pc)
    /\ UNCHANGED <<sinkVars, mergeRunVars, clock, cursorFile, upstream, runs, cursorAtStart,
                   cursorWritten, writeReturned, lastSync, tokenCached, sinceUsed, fetchAt, invoices,
                   df, shadowSink>>
    /\ UNCHANGED outsideRun

\* Time passes.
Tick ==
    /\ clock < MaxClock
    /\ clock' = clock + 1
    /\ UNCHANGED <<sinkVars, mergeRunVars, cursorFile, upstream, pc, runs, abortedAt,
                   cursorAtStart, cursorWritten, writeReturned, lastSync, tokenCached,
                   sinceUsed, fetchAt, invoices, df, crashedSince, shadowSink>>
    /\ UNCHANGED outsideRun

\* An invoice is created or modified upstream.
UpstreamModify(id) ==
    /\ upstream[id] # clock
    /\ upstream' = [upstream EXCEPT ![id] = clock]
    /\ UNCHANGED <<sinkVars, mergeRunVars, clock, cursorFile, pc, runs, abortedAt,
                   cursorAtStart, cursorWritten, writeReturned, lastSync, tokenCached,
                   sinceUsed, fetchAt, invoices, df, crashedSince, shadowSink>>
    /\ UNCHANGED outsideRun

-----------------------------------------------------------------------------
(* OAuthClientCredentialsProvider *)

MaxNow == 4
MaxTokens == 2

\* buffer_seconds
BufferSeconds == 30

NoToken == [present |-> FALSE, token |-> 0, expires_at |-> 0]

\* What the token endpoint can answer.  body: "not_json" | "json_nonobject"
\* | "object"; tok, the access_token field: "ok" | "missing" | "empty" |
\* "null"; exp, the expires_in field: "positive" (the number e) | "zero" |
\* "missing" | "non_numeric" (a str that is no number) | "null".
Response(r, s, b, t, x, n) ==
    [reach |-> r, status |-> s, body |-> b, tok |-> t, exp |-> x, e |-> n]

Unreachable == Response(FALSE, 0, "none", "none", "none", 0)

ExpiresInValues == {1, BufferSeconds, BufferSeconds + 1, BufferSeconds + 2}

Responses ==
    {Unreachable}
    \cup {Response(TRUE, st, "object", "ok", "positive", BufferSeconds + 1) : st \in {201, 500}}
    \cup {Response(TRUE, 200, b, "none", "none", 0) : b \in {"not_json", "json_nonobject"}}
    \cup {Response(TRUE, 200, "object", t, "positive", n) :
             t \in {"ok", "missing", "empty", "null"}, n \in ExpiresInValues}
    \cup {Response(TRUE, 200, "object", t, x, 0) :
             t \in {"ok", "missing", "empty", "null"},
             x \in {"zero", "missing", "non_numeric", "null"}}

Max0(n) == IF n > 0 THEN n ELSE 0

Raised(kind) == [error |-> kind, token |-> 0, expires_at |-> 0]

\* The token text str(payload.get("access_token", "")).strip() yields: the
\* server's token (its serial number), or 0 for the text "None" of a null.
TokenText(resp, serial) == IF resp.tok = "ok" THEN serial ELSE 0

\* _request_new_token without the safety buffer: the token is kept for the
\* whole of expires_in.
RequestNewTokenUnbuffered(resp, t, serial) ==
    IF resp.reach /\ resp.status = 200 /\ resp.body = "object" /\ resp.tok \in {"ok", "null"}
       /\ resp.exp = "positive"
    THEN [error |-> "none", token |-> TokenText(resp, serial), expires_at |-> t + resp.e]
    ELSE Raised("AuthError")

\* _request_new_token, the response being resp and time.time() on line 64
\* being t: the AccessToken built, or the exception raised.
RequestNewToken(resp, t, serial) ==
    CASE ~resp.reach -> Raised("AuthError")
      [] resp.reach /\ resp.status # 200 -> Raised("AuthError")
      [] resp.reach /\ resp.status = 200 /\ resp.body = "not_json" -> Raised("JSONDecodeError")
      [] resp.reach /\ resp.status = 200 /\ resp.body = "json_nonobject" -> Raised("AttributeError")
      [] OTHER ->
            IF resp.exp = "non_numeric" THEN Raised("ValueError")
            ELSE IF resp.exp = "null" THEN Raised("TypeError")
            ELSE IF resp.tok \in {"missing", "empty"} \/ resp.exp \in {"zero", "missing"}
                 THEN Raised("AuthError")
                 ELSE [error |-> "none", token |-> TokenText(resp, serial),
                       expires_at |-> t + Max0(resp.e - BufferSeconds)]

\* is_valid with the expiry instant itself still counted as valid.
IsValidAtExpiry(c, t) == t <= c.expires_at

\* AccessToken.is_valid at time t
IsValid(c, t) == t < c.expires_at

\* What the last get_token call did: when it was made, the cache before it,
\* the POSTs it made, the answer it got, the error it raised, the token it
\* returned, and whether it assigned self._cached (line 38).
NoCall ==
    [kind |-> "none", at |-> 0, before |-> NoToken, resp |-> Unreachable, posts |-> 0,
     error |-> "none", returned |-> 0, replaced |-> FALSE]

\* get_token() while the cached token is valid: it is returned as it is.
GetTokenCached ==
    /\ cached.present
    /\ IsValid(cached, tnow)
    /\ lastCall' = [kind |-> "cache", at |-> tnow, before |-> cached, resp |-> Unreachable,
                    posts |-> 0, error |-> "none", returned |-> cached.token,
                    replaced |-> FALSE]
    /\ UNCHANGED <<tnow, cached, issued, issuedAt, issuedExpiresIn>>
    /\ UNCHANGED outsideAuth

\* get_token that drops the cached token before it asks for a new one.
GetTokenRenewClearingFirst(resp, d) ==
    /\ ~(cached.present /\ IsValid(cached, tnow))
    /\ tnow + d <= MaxNow
    /\ resp.tok = "ok" /\ resp.reach /\ resp.status < 300 => issued < MaxTokens
    /\ LET serial == issued + 1
           got == RequestNewToken(resp, tnow + d, serial)
       IN /\ tnow' = tnow + d
          /\ issued' = IF resp.reach /\ resp.status < 300 /\ resp.tok = "ok" THEN serial ELSE issued
          /\ IF got.error = "none"
             THEN /\ cached' = [present |-> TRUE, token |-> got.token, expires_at |-> got.expires_at]
                  /\ issuedAt' = tnow + d
                  /\ issuedExpiresIn' = resp.e
             ELSE cached' = NoToken /\ UNCHANGED <<issuedAt, issuedExpiresIn>>
          /\ lastCall' = [kind |-> "renew", at |-> tnow, before |-> cached, resp |-> resp,
                          posts |-> 1, error |-> got.error, returned |-> got.token,
                          replaced |-> got.error = "none"]
    /\ UNCHANGED outsideAuth

\* get_token() with no valid cached token: one POST to the token endpoint,
\* answered with resp after d seconds; the token is cached or the call raises.
GetTokenRenew(resp, d) ==
    /\ ~(cached.present /\ IsValid(cached, tnow))
    /\ tnow + d <= MaxNow
    /\ resp.tok = "ok" /\ resp.reach /\ resp.status < 300 => issued < MaxTokens
    /\ LET serial == issued + 1
           got == RequestNewToken(resp, tnow + d, serial)
       IN /\ tnow' = tnow + d
          /\ issued' = IF resp.reach /\ resp.status < 300 /\ resp.tok = "ok" THEN serial ELSE issued
          /\ IF got.error = "none"
             THEN /\ cached' = [present |-> TRUE, token |-> got.token, expires_at |-> got.expires_at]
                  /\ issuedAt' = tnow + d
                  /\ issuedExpiresIn' = resp.e
             ELSE UNCHANGED <<cached, issuedAt, issuedExpiresIn>>
          /\ lastCall' = [kind |-> "renew", at |-> tnow, before |-> cached, resp |-> resp,
                          posts |-> 1, error |-> got.error, returned |-> got.token,
                          replaced |-> got.error = "none"]
    /\ UNCHANGED outsideAuth

\* A second passes.
AuthTick ==
    /\ tnow < MaxNow
    /\ tnow' = tnow + 1
    /\ UNCHANGED <<cached, issued, issuedAt, issuedExpiresIn, lastCall>>
    /\ UNCHANGED outsideAuth

-----------------------------------------------------------------------------
(* The sink mergers driven with bounded normalized inputs *)

\* The frames handed to write_invoices: up to two normalized rows, enough
\* for two incoming rows of one invoice_id.
IncomingLengths == {0, 1, 2}

IncomingFrames ==
    UNION {[1..n -> NormalizedRows] : n \in IncomingLengths}

\* Frames of one row at one instant, told apart by their amounts: what a
\* re-fetch of an invoice whose updated_at did not move hands over.
TieAmounts == {100, 200}

TieFrames ==
    {<<Row(i, TsCell("iso", 1), a)>> : i \in NormalizedIds \ {NullCell}, a \in TieAmounts}

\* write_invoices(incoming) on the current sink, up to its return statement.
WriteInvoices(incoming) ==
    /\ mphase = "idle"
    /\ sink' = WriteInvoicesResult(writer, sink, incoming, strictFormat)
    /\ writeResult' = [rows_incoming |-> Len(incoming), rows_written |-> Len(sink'.rows)]
    /\ preSink' = sink
    /\ lastIncoming' = incoming
    /\ onceSink' = sink'
    /\ mphase' = "once"
    /\ UNCHANGED <<writer, strictFormat, pipelineVars>>
    /\ UNCHANGED outsideRun

\* write_invoices(incoming) a second time in succession, with the same rows.
WriteInvoicesAgain ==
    /\ mphase = "once"
    /\ sink' = WriteInvoicesResult(writer, sink, lastIncoming, strictFormat)
    /\ writeResult' = [rows_incoming |-> Len(lastIncoming), rows_written |-> Len(sink'.rows)]
    /\ mphase' = "twice"
    /\ UNCHANGED <<writer, strictFormat, lastIncoming, preSink, onceSink, pipelineVars>>
    /\ UNCHANGED outsideRun

\* The call returns: its frame and its result go out of scope.
ReturnWriteResult ==
    /\ mphase \in {"once", "twice"}
    /\ mphase' = "idle"
    /\ lastIncoming' = <<>>
    /\ preSink' = AbsentSink
    /\ onceSink' = AbsentSink
    /\ writeResult' = NoResult
    /\ UNCHANGED <<writer, strictFormat, sink, pipelineVars>>
    /\ UNCHANGED outsideRun

-----------------------------------------------------------------------------
(* ApiClient.request under its tenacity retry wrapper *)

\* stop_after_attempt(3)
MaxAttempts == 3

\* wait_exponential(multiplier=1, min=1, max=10)
WaitMin == 1
WaitMax == 10

\* What one attempt can meet.  token: whether _get_access_token() gave a
\* token or raised AuthError; net: "timeout" (requests.Timeout) | "error"
\* (another RequestException) | "response"; a response has a status and a
\* body that is JSON (of value v) or is not.
Exchange(tk, nt, st, js, val) ==
    [token |-> tk, net |-> nt, status |-> st, json |-> js, v |-> val]

Statuses == {199, 200, 299, 300, 500}

Exchanges ==
    {Exchange(FALSE, "none", 0, FALSE, 0)}
    \cup {Exchange(TRUE, nt, 0, FALSE, 0) : nt \in {"timeout", "error"}}
    \cup {Exchange(TRUE, "response", st, TRUE, val) : st \in Statuses, val \in {1, 2}}
    \cup {Exchange(TRUE, "response", st, FALSE, 0) : st \in Statuses}

\* An exception: its type, and for an ApiError the detail's status_code,
\* message and response_text.
Exc(kind, st, msg, text) == [ok |-> FALSE, kind |-> kind, status |-> st, message |-> msg, v |-> text]

Returned(val) == [ok |-> TRUE, kind |-> "none", status |-> 0, message |-> "none", v |-> val]

NoOutcome == [ok |-> FALSE, kind |-> "none", status |-> 0, message |-> "none", v |-> 0]

\* The body of request, once: what it returns or raises when it meets x.
RequestOnce(x) ==
    IF ~x.token THEN Exc("AuthError", 0, "none", 0)
    ELSE IF x.net = "timeout" THEN Exc("ApiTimeoutError", 0, "none", 0)
    ELSE IF x.net = "error" THEN Exc("RequestException", 0, "none", 0)
    ELSE IF ~(200 <= x.status /\ x.status < 300)
         THEN Exc("ApiError", x.status, "Non-success status code", x.v)
    ELSE IF ~x.json THEN Exc("ApiError", x.status, "Failed to parse JSON response", x.v)
    ELSE Returned(x.v)

\* A retry predicate that leaves out timeouts and network exceptions.
RetryIfApiErrorOnly(out) == ~out.ok /\ out.kind = "ApiError"

\* retry_if_exception_type((RequestException, ApiTimeoutError, ApiError))
RetryIfExceptionType(out) ==
    ~out.ok /\ out.kind \in {"RequestException", "ApiTimeoutError", "ApiError"}

\* stop_after_attempt
StopAfterAttempt(n) == n >= MaxAttempts

RECURSIVE Pow2(_)
Pow2(n) == IF n <= 0 THEN 1 ELSE 2 * Pow2(n - 1)

\* wait_exponential after attempt n: multiplier * 2^(n-1), kept within
\* [min, max].
WaitExponential(n) ==
    LET raw == Pow2(n - 1)
        capped == IF raw < WaitMax THEN raw ELSE WaitMax
    IN IF capped > WaitMin THEN capped ELSE WaitMin

\* request(...) is called.
RequestCall ==
    /\ rqPc = "idle"
    /\ rqPc' = "attempt"
    /\ rqAttempts' = <<>>
    /\ rqWaits' = <<>>
    /\ rqResult' = NoOutcome
    /\ UNCHANGED outsideRequest

\* One attempt meets x; tenacity then returns its value, sleeps for another
\* attempt, or re-raises its exception (reraise=True).
RequestAttempt(x) ==
    /\ rqPc = "attempt"
    /\ LET out == RequestOnce(x)
           n == Len(rqAttempts) + 1
       IN /\ rqAttempts' = Append(rqAttempts, out)
          /\ IF out.ok
             THEN /\ rqPc' = "returned"
                  /\ rqResult' = out
                  /\ UNCHANGED rqWaits
             ELSE IF RetryIfExceptionType(out) /\ ~StopAfterAttempt(n)
             THEN /\ rqPc' = "waiting"
                  /\ rqWaits' = Append(rqWaits, WaitExponential(n))
                  /\ UNCHANGED rqResult
             ELSE /\ rqPc' = "raised"
                  /\ rqResult' = out
                  /\ UNCHANGED rqWaits
    /\ UNCHANGED outsideRequest

\* The sleep between two attempts ends.
RequestWaitElapsed ==
    /\ rqPc = "waiting"
    /\ rqPc' = "attempt"
    /\ UNCHANGED <<rqAttempts, rqWaits, rqResult>>
    /\ UNCHANGED outsideRequest

\* The caller has the value or the exception.
RequestDone ==
    /\ rqPc \in {"returned", "raised"}
    /\ rqPc' = "idle"
    /\ rqAttempts' = <<>>
    /\ rqWaits' = <<>>
    /\ rqResult' = NoOutcome
    /\ UNCHANGED outsideRequest

-----------------------------------------------------------------------------
(* ApiClient.get_paginated *)

MaxPages == 3

PageSizes == {2, 500}

\* Elements of a data list: two mappings and one that is no mapping.
Item(isDict, n) == [dict |-> isDict, id |-> n]

DataLists ==
    {<<>>, <<Item(TRUE, 1)>>, <<Item(FALSE, 0)>>,
     <<Item(TRUE, 1), Item(TRUE, 2)>>, <<Item(TRUE, 2), Item(TRUE, 1)>>,
     <<Item(TRUE, 1), Item(FALSE, 0)>>, <<Item(FALSE, 0), Item(TRUE, 2)>>}

\* What a page request can be answered with.  object: whether the JSON is an
\* object; data: "list" (of items) | "absent" | "nonlist"; hasMore: "true" |
\* "false" | "absent" | "null" | "text" (a non-empty string).
Payload(isObject, d, its, h) == [object |-> isObject, data |-> d, items |-> its, hasMore |-> h]

HasMoreValues == {"true", "false", "absent", "null", "text"}

Payloads ==
    {Payload(FALSE, "absent", <<>>, "absent")}
    \cup {Payload(TRUE, "nonlist", <<>>, "true")}
    \cup {Payload(TRUE, "absent", <<>>, h) : h \in HasMoreValues}
    \cup {Payload(TRUE, "list", its, h) : its \in DataLists, h \in HasMoreValues}

\* payload.get("hasMore", False) that is true by default.
HasMoreDefaultTrue(payload) == payload.hasMore \in {"true", "text", "absent"}

\* bool(payload.get("hasMore", False))
HasMore(payload) == payload.hasMore \in {"true", "text"}

\* payload.get("data", [])
DataOf(payload) == IF payload.data = "absent" THEN <<>> ELSE payload.items

\* The items the for loop yields: the mappings, in order.
IsDict(item) == item.dict

YieldedOf(payload) == SelectSeq(DataOf(payload), IsDict)

\* Errors request can end with after its retries.
RequestErrors == {"ApiError", "ApiTimeoutError", "RequestException", "AuthError"}

\* fetch_updated_invoices has not returned.
NotFetched == [done |-> FALSE, error |-> "none", records |-> <<>>]

\* fetch_updated_invoices returns the list it appended every yielded item to.
FetchReturned(items) == [done |-> TRUE, error |-> "none", records |-> items]

\* The error leaves fetch_updated_invoices; its local list is dropped.
FetchRaised(err) == [done |-> TRUE, error |-> err, records |-> <<>>]

\* get_paginated(path, base_params, page_size) is called and iterated by
\* fetch_updated_invoices.
GetPaginated(size) ==
    /\ pgPc = "idle"
    /\ pgPc' = "running"
    /\ pgPage' = 1
    /\ pgSize' = size
    /\ pgRequests' = <<>>
    /\ pgServed' = <<>>
    /\ pgYielded' = <<>>
    /\ pgError' = "none"
    /\ fetched' = NotFetched
    /\ UNCHANGED outsidePaging

\* One turn of the loop, the request being answered with payload.
PageAnswered(payload) ==
    /\ pgPc = "running"
    /\ pgPage = MaxPages => ~HasMore(payload)
    /\ pgRequests' = Append(pgRequests, [Page |-> pgPage, PageSize |-> pgSize])
    /\ pgServed' = Append(pgServed, payload)
    /\ UNCHANGED pgSize
    /\ IF ~payload.object
       THEN /\ pgPc' = "raised"
            /\ pgError' = "AttributeError"
            /\ fetched' = FetchRaised("AttributeError")
            /\ UNCHANGED <<pgPage, pgYielded>>
       ELSE IF payload.data = "nonlist"
       THEN /\ pgPc' = "raised"
            /\ pgError' = "ApiError"
            /\ fetched' = FetchRaised("ApiError")
            /\ UNCHANGED <<pgPage, pgYielded>>
       ELSE /\ pgYielded' = pgYielded \o YieldedOf(payload)
            /\ pgError' = "none"
            /\ IF HasMore(payload)
               THEN pgPc' = "running" /\ pgPage' = pgPage + 1 /\ UNCHANGED fetched
               ELSE /\ pgPc' = "done"
                    /\ fetched' = FetchReturned(pgYielded')
                    /\ UNCHANGED pgPage
    /\ UNCHANGED outsidePaging

\* One turn of the loop, the request raising err.
PageFailed(err) ==
    /\ pgPc = "running"
    /\ pgRequests' = Append(pgRequests, [Page |-> pgPage, PageSize |-> pgSize])
    /\ pgPc' = "raised"
    /\ pgError' = err
    /\ fetched' = FetchRaised(err)
    /\ UNCHANGED <<pgPage, pgSize, pgServed, pgYielded>>
    /\ UNCHANGED outsidePaging

\* The caller has consumed the generator.
PaginatedConsumed ==
    /\ pgPc \in {"done", "raised"}
    /\ pgPc' = "idle"
    /\ pgPage' = 0
    /\ pgSize' = 0
    /\ pgRequests' = <<>>
    /\ pgServed' = <<>>
    /\ pgYielded' = <<>>
    /\ pgError' = "none"
    /\ fetched' = NotFetched
    /\ UNCHANGED outsidePaging

-----------------------------------------------------------------------------
(* fetch_updated_invoices: the cursor read, the pages, the attempts of each *)
(* request and the token each attempt asks for                              *)

\* What the pages of one fetch are answered with.
FetchPayloads ==
    {Payload(TRUE, "list", <<>>, h) : h \in {"true", "absent"}}
    \cup {Payload(TRUE, "nonlist", <<>>, "true"), Payload(FALSE, "absent", <<>>, "absent")}

\* One attempt of request: the query it sends, how _headers() got its token
\* ("cache": get_token returned the cached token; "renew": it asked the token
\* endpoint; "raised": that renewal raised), and whether the attempt failed.
AttemptRecord(page, since, tok, bad) ==
    [Page |-> page, updatedSince |-> since, token |-> tok, failed |-> bad]

\* fetch_updated_invoices() is called: the cursor is read, or load raises.
FetchUpdatedInvoices ==
    /\ ftPc = "idle"
    /\ IF Load(cursorFile).error # "none"
       THEN /\ ftPc' = "raised"
            /\ ftSince' = NoSince
            /\ ftPage' = 0
       ELSE /\ ftPc' = "request"
            /\ ftSince' = ReadLastSyncUtc(cursorFile, clock)
            /\ ftPage' = 1
    /\ ftReads' = 1
    /\ ftLog' = <<>>
    /\ UNCHANGED <<clock, cursorFile, ftTokenValid>>
    /\ UNCHANGED outsideFetch

\* The attempts of the current page's request made so far.
AttemptsOfPage(log, page) == Cardinality({i \in 1..Len(log) : log[i].Page = page})

\* What follows an attempt that met x, the page being answered with payload
\* when the attempt succeeded; since is the updatedSince the attempt sent.
AttemptOutcome(x, payload, since) ==
    LET out == RequestOnce(x)
        n == AttemptsOfPage(ftLog, ftPage) + 1
        tok == IF ftTokenValid THEN "cache" ELSE IF x.token THEN "renew" ELSE "raised"
    IN /\ ftLog' = Append(ftLog, AttemptRecord(ftPage, since, tok, ~out.ok))
       /\ ftTokenValid' = (ftTokenValid \/ x.token)
       /\ IF out.ok
          THEN IF ~payload.object \/ payload.data = "nonlist"
               THEN ftPc' = "raised" /\ UNCHANGED ftPage
               ELSE IF HasMore(payload)
               THEN ftPc' = "request" /\ ftPage' = ftPage + 1
               ELSE ftPc' = "done" /\ UNCHANGED ftPage
          ELSE IF RetryIfExceptionType(out) /\ ~StopAfterAttempt(n)
          THEN ftPc' = "waiting" /\ UNCHANGED ftPage
          ELSE ftPc' = "raised" /\ UNCHANGED ftPage

\* An attempt that reads the cursor anew for its updatedSince.
FetchAttemptRereadingSince(x, payload) ==
    /\ ftPc = "request"
    /\ ftTokenValid => x.token
    /\ ftPage = MaxPages => ~HasMore(payload)
    /\ AttemptOutcome(x, payload, ReadLastSyncUtc(cursorFile, clock))
    /\ ftReads' = ftReads + 1
    /\ UNCHANGED <<clock, cursorFile, ftSince>>
    /\ UNCHANGED outsideFetch

\* One attempt of self.request("GET", path, params=params) for the current
\* page: _headers() calls get_token, the request is sent with the params
\* dict get_paginated holds, and tenacity returns, sleeps or re-raises.
FetchAttempt(x, payload) ==
    /\ ftPc = "request"
    /\ ftTokenValid => x.token
    /\ ftPage = MaxPages => ~HasMore(payload)
    /\ AttemptOutcome(x, payload, ftSince)
    /\ UNCHANGED <<clock, cursorFile, ftSince, ftReads>>
    /\ UNCHANGED outsideFetch

\* The sleep between two attempts ends.
FetchWaitElapsed ==
    /\ ftPc = "waiting"
    /\ ftPc' = "request"
    /\ UNCHANGED <<clock, cursorFile, ftSince, ftReads, ftPage, ftLog, ftTokenValid>>
    /\ UNCHANGED outsideFetch

\* fetch_updated_invoices has returned or raised; its locals are gone.
FetchOver ==
    /\ ftPc \in {"done", "raised"}
    /\ ftPc' = "idle"
    /\ ftSince' = NoSince
    /\ ftReads' = 0
    /\ ftPage' = 0
    /\ ftLog' = <<>>
    /\ UNCHANGED <<clock, cursorFile, ftTokenValid>>
    /\ UNCHANGED outsideFetch

\* Time passes while the fetch runs or sleeps.
FetchTick ==
    /\ clock < MaxClock
    /\ clock' = clock + 1
    /\ UNCHANGED <<cursorFile, fetchVars>>
    /\ UNCHANGED outsideFetch

\* The cached token reaches its expiry.
TokenExpires ==
    /\ ftTokenValid
    /\ ftTokenValid' = FALSE
    /\ UNCHANGED <<clock, cursorFile, ftPc, ftSince, ftReads, ftPage, ftLog>>
    /\ UNCHANGED outsideFetch

-----------------------------------------------------------------------------
(* SyncState on its own: load, and the save of update_sync_state_to_now *)

NotLoaded == [done |-> FALSE, file |-> MissingFile, result |-> NoCursor]

\* Any content the file can have.
CursorFiles ==
    {CursorContent(kind, 0) :
        kind \in {"missing", "unparsable", "json_nonobject", "obj_no_field", "obj_null",
                  "obj_nonstring", "obj_blank"}}
    \cup {CursorContent(kind, t) :
             kind \in {"obj_ts", "obj_ts_frac", "obj_padded"}, t \in 0..MaxClock}

\* SyncState.load(path) is called.
SyncStateLoad ==
    /\ loaded' = [done |-> TRUE, file |-> cursorFile, result |-> Load(cursorFile)]
    /\ UNCHANGED <<clock, cursorFile, lastRead>>
    /\ UNCHANGED outsideCursor

NotRead ==
    [done |-> FALSE, file |-> MissingFile, at |-> 0, error |-> "none", value |-> 0,
     after |-> MissingFile]

\* read_last_sync_utc that stores the default it synthesizes.
ReadLastSyncUtcStoringDefault ==
    /\ LET state == Load(cursorFile)
           value == ReadLastSyncUtc(cursorFile, clock)
           after == IF state.error = "none" /\ ~state.present
                    THEN Save(WholeSeconds(value))
                    ELSE cursorFile
       IN /\ cursorFile' = after
          /\ lastRead' = [done |-> TRUE, file |-> cursorFile, at |-> clock, error |-> state.error,
                          value |-> IF state.error = "none" THEN value ELSE 0, after |-> after]
    /\ UNCHANGED <<clock, loaded>>
    /\ UNCHANGED outsideCursor

\* RevenueService.read_last_sync_utc() is called: load raises, or the stored
\* cursor or now - 7 days is returned.
CallReadLastSyncUtc ==
    /\ LET state == Load(cursorFile)
       IN lastRead' = [done |-> TRUE, file |-> cursorFile, at |-> clock, error |-> state.error,
                       value |-> IF state.error = "none"
                                 THEN ReadLastSyncUtc(cursorFile, clock) ELSE 0,
                       after |-> cursorFile]
    /\ UNCHANGED <<clock, cursorFile, loaded>>
    /\ UNCHANGED outsideCursor

\* SyncState(last_sync_utc=now).save(path), as update_sync_state_to_now does.
SyncStateSave ==
    /\ \E now_utc \in NowIsoformatZ(clock) : cursorFile' = Save(now_utc)
    /\ UNCHANGED <<clock, loaded, lastRead>>
    /\ UNCHANGED outsideCursor

\* A day passes.
CursorTick ==
    /\ clock < MaxClock
    /\ clock' = clock + 1
    /\ UNCHANGED <<cursorFile, loaded, lastRead>>
    /\ UNCHANGED outsideCursor

-----------------------------------------------------------------------------
(* RevenueTransformer.transform on raw records *)

\* A JSON value of a raw record.  k: "absent" (no such key) | "null" | "zero"
\* (the number 0) | "empty" (the str "") | "num" (the non-zero number v) |
\* "numtext" (a str that reads as the number v) | "text" (a str that is no
\* number and no date) | "date" (an ISO-8601 timestamp str of instant v) |
\* "dict" (a mapping with other entries and, unless ik = "absent", the entry
\* key whose value is of kind ik and value v).
RawVal(kind, n) == [k |-> kind, v |-> n, key |-> "none", ik |-> "none"]

RawDict(entry, innerKind, n) == [k |-> "dict", v |-> n, key |-> entry, ik |-> innerKind]

None == RawVal("null", 0)

Absent == RawVal("absent", 0)

RecordKeys ==
    {"id", "invoiceId", "invoice_id", "invoiceDate", "date", "createdOn", "modifiedOn",
     "updatedOn", "updatedAt", "updated_at", "businessUnit", "businessUnitName", "jobType",
     "jobTypeName", "total", "totalAmount", "summary"}

\* REQUIRED_COLUMNS
RequiredColumns ==
    <<"invoice_id", "invoice_date", "business_unit", "job_type", "total_amount", "updated_at">>

\* inv.get(key)
Get(inv, key) == IF inv[key].k = "absent" THEN None ELSE inv[key]

\* _safe_get(inv, k1, k2)
SafeGet(inv, k1, k2) ==
    IF inv[k1].k = "dict" /\ inv[k1].key = k2 /\ inv[k1].ik # "absent"
    THEN RawVal(inv[k1].ik, inv[k1].v)
    ELSE None

\* Python truth of a value; the mappings of the model are never empty.
Truthy(val) == val.k \notin {"absent", "null", "zero", "empty"}

\* a or b
Or(a, b) == IF Truthy(a) THEN a ELSE b

\* The dict appended to rows for one record (lines 51-82).
ExtractRow(inv) ==
    [invoice_id |-> Or(Or(Get(inv, "id"), Get(inv, "invoiceId")), Get(inv, "invoice_id")),
     invoice_date |-> Or(Or(Get(inv, "invoiceDate"), Get(inv, "date")), Get(inv, "createdOn")),
     business_unit |-> Or(Or(SafeGet(inv, "businessUnit", "name"), Get(inv, "businessUnitName")),
                          Get(inv, "businessUnit")),
     job_type |-> Or(Or(SafeGet(inv, "jobType", "name"), Get(inv, "jobTypeName")),
                     Get(inv, "jobType")),
     total_amount |-> Or(Or(Get(inv, "total"), Get(inv, "totalAmount")),
                         SafeGet(inv, "summary", "total")),
     updated_at |-> Or(Or(Or(Get(inv, "modifiedOn"), Get(inv, "updatedOn")),
                          Get(inv, "updatedAt")), Get(inv, "updated_at"))]

\* An output cell [k, v].  Besides the kinds of invoice_id and updated_at
\* cells: "empty_text" the str "", "date_text" the str of a timestamp,
\* "dict_text" the str() of a mapping, "day" the str YYYY-MM-DD of instant v.
Cell(kind, n) == [k |-> kind, v |-> n]

\* .astype("string"): missing stays missing, anything else becomes its str().
AsStringCell(val) ==
    CASE val.k \in {"absent", "null"} -> NullCell
      [] val.k = "zero" -> Cell("digits", 0)
      [] val.k \in {"num", "numtext"} -> Cell("digits", val.v)
      [] val.k = "empty" -> Cell("empty_text", 0)
      [] val.k = "text" -> Cell("alpha", val.v)
      [] val.k = "date" -> Cell("date_text", val.v)
      [] OTHER -> Cell("dict_text", val.v)

\* pd.to_numeric(errors="coerce"): numbers and strs that read as numbers
\* become numbers, all else becomes NaN.
ToNumericCell(val) ==
    CASE val.k = "zero" -> Cell("num", 0)
      [] val.k \in {"num", "numtext"} -> Cell("num", val.v)
      [] OTHER -> NullCell

\* pd.to_datetime(errors="coerce", utc=True) of a cell: the instant, or -1
\* for NaT.
ToDatetimeUtc(val) == IF val.k = "date" THEN val.v ELSE 0 - 1

\* .dt.strftime("%Y-%m-%d")
StrftimeDay(t) == IF t < 0 THEN NullCell ELSE Cell("day", t)

\* .dt.strftime("%Y-%m-%dT%H:%M:%SZ")
StrftimeIso(t) == IF t < 0 THEN NullCell ELSE TsCell("iso", t)

\* Lines 96-107 on one row.
FormatRow(r) ==
    [invoice_id |-> AsStringCell(r.invoice_id),
     invoice_date |-> StrftimeDay(ToDatetimeUtc(r.invoice_date)),
     business_unit |-> AsStringCell(r.business_unit),
     job_type |-> AsStringCell(r.job_type),
     total_amount |-> ToNumericCell(r.total_amount),
     updated_at |-> StrftimeIso(ToDatetimeUtc(r.updated_at))]

NoFrame == [done |-> FALSE, raised |-> FALSE, columns |-> <<>>, rows |-> <<>>]

\* transform with errors="raise" in place of errors="coerce": a value that
\* does not parse raises instead of becoming missing.
TransformErrorsRaise(records) ==
    IF \E i \in 1..Len(records) :
          LET r == ExtractRow(records[i])
          IN \/ r.total_amount.k \in {"empty", "text", "date", "dict"}
             \/ r.invoice_date.k \in {"empty", "text", "dict"}
             \/ r.updated_at.k \in {"empty", "text", "dict"}
    THEN [done |-> TRUE, raised |-> TRUE, columns |-> <<>>, rows |-> <<>>]
    ELSE [done |-> TRUE, raised |-> FALSE, columns |-> RequiredColumns,
          rows |-> [i \in 1..Len(records) |-> FormatRow(ExtractRow(records[i]))]]

\* transform(invoices)
TransformRaw(records) ==
    [done |-> TRUE, raised |-> FALSE, columns |-> RequiredColumns,
     rows |-> IF records = <<>> THEN <<>>
              ELSE [i \in 1..Len(records) |-> FormatRow(ExtractRow(records[i]))]]

\* The raw records transform is called on: every combination of values under
\* the aliases of one field, the other keys absent.
NoKeys == [key \in RecordKeys |-> Absent]

IdValues ==
    {Absent, None, RawVal("zero", 0), RawVal("empty", 0), RawVal("num", 1), RawVal("numtext", 2),
     RawVal("text", 1)}

DateValues ==
    {Absent, None, RawVal("empty", 0), RawVal("date", 1), RawVal("date", 2), RawVal("text", 1)}

TotalValues ==
    {Absent, None, RawVal("zero", 0), RawVal("num", 5), RawVal("numtext", 6), RawVal("text", 1)}

NameValues == {Absent, None, RawVal("empty", 0), RawVal("text", 1), RawVal("text", 2)}

NestedIn(entry, values) == {None, RawVal("text", 3)} \cup {RawDict(entry, x.k, x.v) : x \in values}

RawRecords ==
    {[NoKeys EXCEPT !["id"] = a, !["invoiceId"] = b, !["invoice_id"] = c] : a, b, c \in IdValues}
    \cup {[NoKeys EXCEPT !["invoiceDate"] = a, !["date"] = b, !["createdOn"] = c] :
            a, b, c \in DateValues}
    \cup {[NoKeys EXCEPT !["modifiedOn"] = a, !["updatedOn"] = b, !["updatedAt"] = c,
                         !["updated_at"] = d] :
            a, b \in DateValues, c, d \in {Absent, RawVal("date", 2), RawVal("text", 1)}}
    \cup {[NoKeys EXCEPT !["total"] = a, !["totalAmount"] = b, !["summary"] = c] :
            a, b \in TotalValues, c \in {Absent} \cup NestedIn("total", TotalValues)}
    \cup {[NoKeys EXCEPT !["businessUnit"] = a, !["businessUnitName"] = b] :
            a \in {Absent} \cup NestedIn("name", NameValues), b \in NameValues}
    \cup {[NoKeys EXCEPT !["jobType"] = a, !["jobTypeName"] = b] :
            a \in {Absent} \cup NestedIn("name", NameValues), b \in NameValues}

\* A complete record, as the API sends them.
FullRecord ==
    [NoKeys EXCEPT !["id"] = RawVal("num", 1), !["invoiceDate"] = RawVal("date", 1),
                   !["modifiedOn"] = RawVal("date", 2), !["total"] = RawVal("num", 5),
                   !["businessUnit"] = RawDict("name", "text", 1),
                   !["jobTypeName"] = RawVal("text", 2)]

RawFrames ==
    {<<>>} \cup {<<r>> : r \in RawRecords} \cup {<<FullRecord, r>> : r \in RawRecords}
    \cup {<<r, FullRecord>> : r \in RawRecords}

CallTransform ==
    /\ ~trOut.done
    /\ trOut' = TransformRaw(trIn)
    /\ UNCHANGED trIn
    /\ UNCHANGED outsideTransform

-----------------------------------------------------------------------------
(* Specifications: each drives one part of the program, the rest at rest *)

SinkQuiet ==
    /\ writer = "excel"
    /\ strictFormat = FALSE
    /\ sink = AbsentSink

MergeQuiet ==
    /\ lastIncoming = <<>>
    /\ preSink = AbsentSink
    /\ onceSink = AbsentSink
    /\ writeResult = NoResult
    /\ mphase = "idle"

RunQuiet ==
    /\ upstream = [i \in UpstreamIds |-> NoInvoice]
    /\ pc = "idle"
    /\ runs = 0
    /\ abortedAt = "none"
    /\ cursorAtStart = MissingFile
    /\ cursorWritten = FALSE
    /\ writeReturned = FALSE
    /\ lastSync = NoSince
    /\ tokenCached = FALSE
    /\ sinceUsed = NoSince
    /\ fetchAt = NoSince
    /\ invoices = <<>>
    /\ df = <<>>
    /\ crashedSince = {}
    /\ shadowSink = AbsentSink

PipelineQuiet ==
    /\ clock = Lookback
    /\ cursorFile = MissingFile
    /\ RunQuiet

RequestQuiet ==
    /\ rqPc = "idle"
    /\ rqAttempts = <<>>
    /\ rqWaits = <<>>
    /\ rqResult = NoOutcome

PagingQuiet ==
    /\ pgPc = "idle"
    /\ pgPage = 0
    /\ pgSize = 0
    /\ pgRequests = <<>>
    /\ pgServed = <<>>
    /\ pgYielded = <<>>
    /\ pgError = "none"
    /\ fetched = NotFetched

LoadQuiet == loaded = NotLoaded /\ lastRead = NotRead

TransformQuiet == trIn = <<>> /\ trOut = NoFrame

FetchQuiet ==
    /\ ftPc = "idle"
    /\ ftSince = NoSince
    /\ ftReads = 0
    /\ ftPage = 0
    /\ ftLog = <<>>
    /\ ftTokenValid = FALSE

AuthQuiet ==
    /\ tnow = 0
    /\ cached = NoToken
    /\ issued = 0
    /\ issuedAt = 0
    /\ issuedExpiresIn = 0
    /\ lastCall = NoCall

MergeInit ==
    /\ writer \in {"excel", "gsheet"}
    /\ strictFormat \in BOOLEAN
    /\ writer = "excel" => strictFormat = FALSE
    /\ sink = AbsentSink
    /\ MergeQuiet
    /\ PipelineQuiet
    /\ AuthQuiet
    /\ RequestQuiet
    /\ PagingQuiet
    /\ LoadQuiet
    /\ TransformQuiet
    /\ FetchQuiet

MergeNext ==
    \/ \E incoming \in IncomingFrames : WriteInvoices(incoming)
    \/ WriteInvoicesAgain
    \/ ReturnWriteResult

SpecMerge == MergeInit /\ [][MergeNext]_vars

TieNext ==
    \/ \E incoming \in TieFrames : WriteInvoices(incoming)
    \/ ReturnWriteResult

SpecTie == MergeInit /\ [][TieNext]_vars

InitialCursorFiles ==
    {MissingFile, CursorContent("unparsable", 0), CursorContent("json_nonobject", 0),
     CursorContent("obj_blank", 0), CursorContent("obj_ts", Lookback - 1)}

PipelineInit ==
    /\ writer = "excel"
    /\ strictFormat = FALSE
    /\ sink = AbsentSink
    /\ MergeQuiet
    /\ clock = Lookback
    /\ cursorFile \in InitialCursorFiles
    /\ upstream \in [UpstreamIds -> {NoInvoice, 0}]
    /\ pc = "idle"
    /\ runs = 0
    /\ abortedAt = "none"
    /\ cursorAtStart = cursorFile
    /\ cursorWritten = FALSE
    /\ writeReturned = FALSE
    /\ lastSync = NoSince
    /\ tokenCached = FALSE
    /\ sinceUsed = NoSince
    /\ fetchAt = NoSince
    /\ invoices = <<>>
    /\ df = <<>>
    /\ crashedSince = {}
    /\ shadowSink = AbsentSink
    /\ AuthQuiet
    /\ RequestQuiet
    /\ PagingQuiet
    /\ LoadQuiet
    /\ TransformQuiet
    /\ FetchQuiet

PipelineNext ==
    \/ StartRun
    \/ MainReadLastSync
    \/ MainGetToken
    \/ MainFetchUpdatedInvoices
    \/ MainTransform
    \/ MainWriteInvoices
    \/ MainUpdateSyncStateToNow
    \/ MainComplete
    \/ MainAbort
    \/ Tick
    \/ \E id \in UpstreamIds : UpstreamModify(id)

SpecPipeline == PipelineInit /\ [][PipelineNext]_vars

AuthInit ==
    /\ SinkQuiet
    /\ MergeQuiet
    /\ PipelineQuiet
    /\ AuthQuiet
    /\ RequestQuiet
    /\ PagingQuiet
    /\ LoadQuiet
    /\ TransformQuiet
    /\ FetchQuiet

AuthNext ==
    \/ GetTokenCached
    \/ \E resp \in Responses, d \in {0, 1} : GetTokenRenew(resp, d)
    \/ AuthTick

SpecAuth == AuthInit /\ [][AuthNext]_vars

RequestInit ==
    /\ SinkQuiet
    /\ MergeQuiet
    /\ PipelineQuiet
    /\ AuthQuiet
    /\ RequestQuiet
    /\ PagingQuiet
    /\ LoadQuiet
    /\ TransformQuiet
    /\ FetchQuiet

RequestNext ==
    \/ RequestCall
    \/ \E x \in Exchanges : RequestAttempt(x)
    \/ RequestWaitElapsed
    \/ RequestDone

SpecRequest == RequestInit /\ [][RequestNext]_vars

PagingInit ==
    /\ SinkQuiet
    /\ MergeQuiet
    /\ PipelineQuiet
    /\ AuthQuiet
    /\ RequestQuiet
    /\ PagingQuiet
    /\ LoadQuiet
    /\ TransformQuiet
    /\ FetchQuiet

PagingNext ==
    \/ \E size \in PageSizes : GetPaginated(size)
    \/ \E payload \in Payloads : PageAnswered(payload)
    \/ \E err \in RequestErrors : PageFailed(err)
    \/ PaginatedConsumed

SpecPaging == PagingInit /\ [][PagingNext]_vars

CursorInit ==
    /\ SinkQuiet
    /\ MergeQuiet
    /\ clock = Lookback
    /\ cursorFile \in CursorFiles
    /\ RunQuiet
    /\ AuthQuiet
    /\ RequestQuiet
    /\ PagingQuiet
    /\ LoadQuiet
    /\ TransformQuiet
    /\ FetchQuiet

CursorNext ==
    \/ SyncStateLoad
    \/ CallReadLastSyncUtc
    \/ SyncStateSave
    \/ CursorTick

SpecCursor == CursorInit /\ [][CursorNext]_vars

TransformInit ==
    /\ SinkQuiet
    /\ MergeQuiet
    /\ PipelineQuiet
    /\ AuthQuiet
    /\ RequestQuiet
    /\ PagingQuiet
    /\ LoadQuiet
    /\ trIn \in RawFrames
    /\ trOut = NoFrame
    /\ FetchQuiet

TransformNext == CallTransform

SpecTransform == TransformInit /\ [][TransformNext]_vars

FetchInit ==
    /\ SinkQuiet
    /\ MergeQuiet
    /\ clock = Lookback
    /\ cursorFile \in InitialCursorFiles
    /\ RunQuiet
    /\ AuthQuiet
    /\ RequestQuiet
    /\ PagingQuiet
    /\ LoadQuiet
    /\ TransformQuiet
    /\ FetchQuiet

FetchNext ==
    \/ FetchUpdatedInvoices
    \/ \E x \in Exchanges, payload \in FetchPayloads : FetchAttempt(x, payload)
    \/ FetchWaitElapsed
    \/ FetchOver
    \/ FetchTick
    \/ TokenExpires

SpecFetch == FetchInit /\ [][FetchNext]_vars

-----------------------------------------------------------------------------
(* What the claims about the mergers speak of *)

\* A cell that stands for "no identifier": a missing value, or the text the
\* sheet writer stores for one.
IsNullId(id) == id.k \in {"null", "none_text"}

\* The identifier a cell denotes, whatever its cell type: the int 7 and the
\* str "7" denote the same invoice.
IdKey(id) == IF id.k \in {"num", "digits"} THEN <<"digits", id.v>> ELSE <<id.k, id.v>>

\* The instant a cell denotes; a missing or unparseable one ranks below all.
Instant(ts) == IF ts.k \in {"iso", "pd", "dt"} THEN ts.v ELSE 0 - 1

KeysOf(rows) ==
    {IdKey(rows[i].invoice_id) : i \in {j \in 1..Len(rows) : ~IsNullId(rows[j].invoice_id)}}

RowsOfKey(rows, key) ==
    {i \in 1..Len(rows) : ~IsNullId(rows[i].invoice_id) /\ IdKey(rows[i].invoice_id) = key}

\* The sink the last write_invoices call started from.
SinkBeforeLastWrite == IF mphase = "twice" THEN onceSink ELSE preSink

\* The sink as a table keyed by invoice_id: per identifier, its rows' instants
\* and amounts and how many rows carry it.
KeyedRows(s) ==
    {<<key,
       {<<Instant(s.rows[i].updated_at), s.rows[i].total_amount>> : i \in RowsOfKey(s.rows, key)},
       Cardinality(RowsOfKey(s.rows, key))>> : key \in KeysOf(s.rows)}

\* C2: after every write_invoices the sink holds at most one row per distinct
\* non-null invoice_id, and that row carries the greatest updated_at among
\* all existing and incoming rows of that invoice_id (null ranks lowest).
C2_OneLatestRowPerInvoiceId ==
    mphase \in {"once", "twice"} =>
        LET before == SinkBeforeLastWrite.rows \o lastIncoming
        IN /\ \A key \in KeysOf(sink.rows) : Cardinality(RowsOfKey(sink.rows, key)) <= 1
           /\ \A i \in 1..Len(before) :
                 ~IsNullId(before[i].invoice_id) =>
                     LET kept == RowsOfKey(sink.rows, IdKey(before[i].invoice_id))
                     IN /\ kept # {}
                        /\ \A j \in kept :
                              Instant(sink.rows[j].updated_at) >= Instant(before[i].updated_at)

\* C3: write_invoices(R) twice in succession leaves the same rows, keyed by
\* invoice_id, as write_invoices(R) once.
C3_MergeIdempotent ==
    mphase = "twice" => KeyedRows(sink) = KeyedRows(onceSink)

\* The rows of an identifier as <<instant, amount>> pairs, and their number.
RowsAt(rows, key) ==
    <<{<<Instant(rows[i].updated_at), rows[i].total_amount>> : i \in RowsOfKey(rows, key)},
      Cardinality(RowsOfKey(rows, key))>>

\* C16: when a row of the sink and an incoming row have the same invoice_id
\* and the same updated_at, the merge keeps the row of the sink and discards
\* the incoming one: the sink's rows of that invoice_id are after the call
\* what they were before it.
C16_TieKeepsExistingRow ==
    mphase = "once" =>
        \A i \in 1..Len(preSink.rows), j \in 1..Len(lastIncoming) :
            LET old == preSink.rows[i]
                new == lastIncoming[j]
            IN (/\ ~IsNullId(old.invoice_id)
                /\ ~IsNullId(new.invoice_id)
                /\ IdKey(old.invoice_id) = IdKey(new.invoice_id)
                /\ Instant(old.updated_at) >= 0
                /\ Instant(old.updated_at) = Instant(new.updated_at))
               => RowsAt(sink.rows, IdKey(old.invoice_id))
                     = RowsAt(preSink.rows, IdKey(old.invoice_id))

\* C19: after write_invoices every non-null invoice_id of the sink before the
\* call or of the incoming rows is in the sink exactly once; rows_written is
\* the number of rows of the rewritten sink and rows_incoming the number of
\* incoming rows; and an empty incoming frame leaves the rows of a sink with
\* one row per invoice_id as they were.
C19_MergeLosesNoIdentifier ==
    mphase \in {"once", "twice"} =>
        LET before == SinkBeforeLastWrite
        IN /\ \A key \in KeysOf(before.rows \o lastIncoming) :
                 Cardinality(RowsOfKey(sink.rows, key)) = 1
           /\ writeResult.rows_written = Len(sink.rows)
           /\ writeResult.rows_incoming = Len(lastIncoming)
           /\ (/\ lastIncoming = <<>>
               /\ \A key \in KeysOf(before.rows) : Cardinality(RowsOfKey(before.rows, key)) = 1)
                 => KeyedRows(sink) = KeyedRows(before)

\* The rows of the sink as the next write_invoices reads them.
ReadBack(w, s) == IF w = "excel" THEN ReadExcel(s.rows) ELSE GetAllValues(s)

\* The updated_at column of existing and incoming rows as the sort sees it.
SortColumn(w, rows, strict) ==
    IF w = "excel" THEN [i \in 1..Len(rows) |-> AsTypeString(rows[i])]
    ELSE ToDatetime(rows, strict)

\* C20: a row written by write_invoices and read back by the next merge has
\* an invoice_id equal to the same identifier in an incoming normalized row,
\* and an updated_at that orders against an incoming updated_at by instant;
\* so a re-fetched invoice replaces its earlier row and adds no second one.
C20_KeyAndTimestampRoundTrip ==
    /\ sink.exists =>
          LET back == ReadBack(writer, sink)
          IN \A i \in 1..Len(back) :
                /\ ~IsNullId(back[i].invoice_id) =>
                      \A id \in NormalizedIds \ {NullCell} :
                          IdKey(id) = IdKey(back[i].invoice_id) => id = back[i].invoice_id
                /\ Instant(back[i].updated_at) >= 0 =>
                      \A ts \in NormalizedTs \ {NullCell} :
                          LET col == SortColumn(writer, <<back[i], Row(NullCell, ts, 100)>>,
                                                strictFormat)
                          IN /\ TsBefore(col[1].updated_at, col[2].updated_at)
                                   <=> Instant(back[i].updated_at) > Instant(ts)
                             /\ TsBefore(col[2].updated_at, col[1].updated_at)
                                   <=> Instant(ts) > Instant(back[i].updated_at)
    /\ mphase \in {"once", "twice"} =>
          \A key \in KeysOf(SinkBeforeLastWrite.rows) \cap KeysOf(lastIncoming) :
              Cardinality(RowsOfKey(sink.rows, key)) = 1

\* C1: in every run the cursor file is written only after write_invoices has
\* returned, and a run that stops in the cursor load, get_token, the fetch,
\* transform or write_invoices leaves the cursor file as it was when the run
\* started.
C1_CursorWrittenOnlyAfterSinkWrite ==
    /\ cursorWritten => writeReturned
    /\ cursorFile # cursorAtStart => cursorWritten
    /\ (pc = "aborted" /\ abortedAt \in {"read_cursor", "get_token", "fetch", "transform", "write"})
          => (~cursorWritten /\ cursorFile = cursorAtStart)

\* A second run stops in write_invoices after a first run advanced the cursor.
C1_Witness ==
    /\ pc = "aborted"
    /\ abortedAt = "write"
    /\ cursorAtStart.k = "obj_ts"
    /\ cursorAtStart.v >= Lookback
    /\ cursorFile = cursorAtStart

\* C4: after a run that stopped before update_sync_state_to_now, the next
\* run's updatedSince window covers the stopped run's window, and once a run
\* completes the sink is what it would be had the stopped runs never
\* happened; a run that stops after update_sync_state_to_now has done all a
\* normal run does.
C4_CrashSafety ==
    /\ sinceUsed # NoSince => \A w \in crashedSince : sinceUsed <= w
    /\ cursorWritten => KeyedRows(sink) = KeyedRows(shadowSink)

\* C17: update_sync_state_to_now stores the current instant as a Z-suffixed
\* ISO text to the second, with no fractional seconds, and after a
\* successful run the cursor file holds that one field and nothing else.
C17_CursorToTheSecond ==
    pc \in {"completion", "done"} =>
        /\ cursorFile.k = "obj_ts"
        /\ cursorFile.v <= clock

\* C18: the cursor a successful run stores is not later than the instant at
\* which the run issued its fetch, so an invoice modified upstream after that
\* instant is inside the next run's updatedSince window.
C18_CursorNotLaterThanFetch ==
    (cursorWritten /\ pc \in {"completion", "done"}) =>
        /\ cursorFile.v <= fetchAt
        /\ \A id \in UpstreamIds : upstream[id] > fetchAt => upstream[id] >= cursorFile.v

\* A cursor file that holds a timestamp.
HoldsTimestamp(file) == file.k \in {"obj_ts", "obj_ts_frac", "obj_padded"}

\* C22: the stored cursor never moves backward: the cursor file changes only
\* in the update_sync_state_to_now of a run that has written the sink, the
\* value written is the clock's and is not below a timestamp it replaces,
\* and the step in which a run stops leaves the file as it is.
C22_CursorNeverMovesBackward ==
    [][cursorFile' # cursorFile =>
          /\ pc = "advance"
          /\ pc' = "completion"
          /\ writeReturned
          /\ HoldsTimestamp(cursorFile')
          /\ cursorFile'.v = clock
          /\ HoldsTimestamp(cursorFile) => cursorFile'.v >= cursorFile.v]_vars

\* A second run has replaced the cursor of the first with a later one, after
\* time has passed.
C22_Witness ==
    /\ runs = 2
    /\ cursorWritten
    /\ HoldsTimestamp(cursorAtStart)
    /\ cursorAtStart.v >= Lookback
    /\ HoldsTimestamp(cursorFile)
    /\ cursorFile.v > cursorAtStart.v

-----------------------------------------------------------------------------
(* What the claims about the token provider speak of *)

\* The last get_token call found a cached token and was made before that
\* token's recorded expiry.
CalledWithinValidity ==
    lastCall.before.present /\ lastCall.at < lastCall.before.expires_at

\* The cache holds the token the last call returned, with the expiry
\* recorded for it.
CacheHoldsReturned ==
    /\ cached.present
    /\ cached.token = lastCall.returned
    /\ cached.expires_at = issuedAt + Max0(issuedExpiresIn - BufferSeconds)

\* C5, as stated: a get_token call made while a cached token exists and the
\* time is before its recorded expiry returns the cached token unchanged with
\* no request to the token endpoint; any other call makes exactly one
\* token-endpoint request and replaces the cached token.
C5_TokenReuseAsStated ==
    lastCall.kind # "none" =>
        /\ CalledWithinValidity =>
              /\ lastCall.posts = 0
              /\ lastCall.error = "none"
              /\ lastCall.returned = lastCall.before.token
              /\ cached = lastCall.before
        /\ ~CalledWithinValidity =>
              /\ lastCall.posts = 1
              /\ lastCall.replaced
              /\ CacheHoldsReturned

\* C5, amended: a call within the validity of the cached token returns it
\* unchanged with no request; any other call makes exactly one token-endpoint
\* request and replaces the cached token when that request yields a token,
\* and otherwise raises and leaves the cache as it was.
C5_TokenReuse ==
    lastCall.kind # "none" =>
        /\ CalledWithinValidity =>
              /\ lastCall.posts = 0
              /\ lastCall.error = "none"
              /\ lastCall.returned = lastCall.before.token
              /\ cached = lastCall.before
        /\ ~CalledWithinValidity =>
              /\ lastCall.posts = 1
              /\ lastCall.replaced <=> lastCall.error = "none"
              /\ lastCall.replaced => CacheHoldsReturned
              /\ ~lastCall.replaced => cached = lastCall.before

\* A call at the very instant a once valid cached token expires renews it.
C5_Witness ==
    /\ lastCall.kind = "renew"
    /\ lastCall.before.present
    /\ lastCall.at = lastCall.before.expires_at
    /\ lastCall.at > 0
    /\ lastCall.replaced
    /\ cached.token # lastCall.before.token

\* C6: a token is served from the cache only at an instant strictly before
\* issue time + max(0, expires_in - 30 s); a token issued with expires_in
\* <= 30 s is never served from the cache.
C6_ServedBeforeBufferedExpiry ==
    lastCall.kind = "cache" =>
        /\ lastCall.at < issuedAt + Max0(issuedExpiresIn - BufferSeconds)
        /\ issuedExpiresIn > BufferSeconds

\* A token is served from the cache at the last instant of its window, after
\* it was issued.
C6_Witness ==
    /\ lastCall.kind = "cache"
    /\ lastCall.at > issuedAt
    /\ lastCall.at + 1 = issuedAt + Max0(issuedExpiresIn - BufferSeconds)

\* The answer lacks a non-empty access_token or a positive expires_in.
PayloadMalformed(resp) ==
    \/ resp.body # "object"
    \/ resp.tok \in {"missing", "empty", "null"}
    \/ resp.exp # "positive"

\* C7: a renewal fails with AuthError and no other error when the identity
\* server is unreachable, answers non-2xx, or answers a payload without a
\* non-empty access_token or a positive expires_in (a body that is not JSON
\* and an expires_in that is no number included); every 2xx answer with a
\* well-formed payload returns the token.
C7_RenewalFailsWithAuthErrorOnly ==
    lastCall.kind = "renew" =>
        LET resp == lastCall.resp
            ok2xx == resp.reach /\ resp.status >= 200 /\ resp.status < 300
        IN /\ (~ok2xx \/ PayloadMalformed(resp)) => lastCall.error = "AuthError"
           /\ (ok2xx /\ ~PayloadMalformed(resp)) =>
                 (lastCall.error = "none" /\ lastCall.returned = issued)

\* The last get_token call raised.
LastCallRaised == lastCall.kind # "none" /\ lastCall.error # "none"

\* C23: when get_token raises, the cache holds what it held before the call,
\* nothing or the expired token, and the call has returned no token; so the
\* cache holds no valid token and the next call asks the token endpoint
\* again.
C23_FailedRenewalLeavesCache ==
    LastCallRaised =>
        /\ cached = lastCall.before
        /\ ~lastCall.replaced
        /\ lastCall.returned = 0
        /\ lastCall.posts = 1
        /\ ~(lastCall.before.present /\ IsValid(lastCall.before, lastCall.at))
        /\ ~(cached.present /\ IsValid(cached, tnow))

\* A renewal answered with an empty access_token raised while an expired
\* token was cached, and that token is still the one cached.
C23_Witness ==
    /\ LastCallRaised
    /\ lastCall.error = "AuthError"
    /\ lastCall.resp.reach
    /\ lastCall.resp.status = 200
    /\ lastCall.resp.tok = "empty"
    /\ lastCall.before.present
    /\ lastCall.before.token = 1
    /\ cached = lastCall.before

-----------------------------------------------------------------------------
(* What the claims about the fetch client speak of *)

\* The errors the claim names as retried.
IsRetriedKind(out) ==
    ~out.ok /\ out.kind \in {"RequestException", "ApiTimeoutError", "ApiError"}

\* C8: request makes at most 3 attempts; it goes on to another attempt after
\* a network exception, a timeout or an ApiError; it returns the first
\* successful attempt's JSON with no attempt after it; and when 3 attempts
\* have failed it raises the third attempt's error as it is.
C8_AtMostThreeAttempts ==
    LET n == Len(rqAttempts)
    IN /\ n <= 3
       /\ \A i \in 1..(n - 1) : IsRetriedKind(rqAttempts[i])
       /\ Len(rqWaits) = (IF rqPc \in {"waiting", "attempt"} THEN n ELSE IF n = 0 THEN 0 ELSE n - 1)
       /\ rqPc = "waiting" => (n < 3 /\ IsRetriedKind(rqAttempts[n]))
       /\ rqPc = "returned" => (rqAttempts[n].ok /\ rqResult = rqAttempts[n])
       /\ rqPc = "raised" =>
             /\ ~rqAttempts[n].ok
             /\ rqResult = rqAttempts[n]
             /\ IsRetriedKind(rqAttempts[n]) => n = 3

\* Three attempts failed, each in another way, and the third error is raised.
C8_Witness ==
    /\ rqPc = "raised"
    /\ Len(rqAttempts) = 3
    /\ rqAttempts[1].kind = "RequestException"
    /\ rqAttempts[2].kind = "ApiTimeoutError"
    /\ rqAttempts[3].kind = "ApiError"
    /\ rqResult = rqAttempts[3]

\* C13: an AuthError raised while request builds its bearer header is
\* retried like the other errors: request raises it only when it came from
\* the third attempt, and every attempt asked the provider for a token.
C13_AuthErrorRetried ==
    LET n == Len(rqAttempts)
    IN (rqPc = "raised" /\ rqAttempts[n].kind = "AuthError") => n = MaxAttempts

\* A page whose hasMore is absent or false; a null counts as absent.
IsLastPage(payload) == payload.hasMore \in {"absent", "false", "null"}

RECURSIVE ConcatData(_)
ConcatData(pages) ==
    IF pages = <<>> THEN <<>>
    ELSE SelectSeq(IF Head(pages).data = "absent" THEN <<>> ELSE Head(pages).items, IsDict)
         \o ConcatData(Tail(pages))

\* C9: when page k is the first page with hasMore absent or false,
\* get_paginated requests Page = 1, ..., k in that order with one PageSize,
\* requests nothing beyond k, yields in order the mappings of the data lists
\* of pages 1..k and then ends.
C9_PaginatesToLastPage ==
    /\ pgPc = "done" =>
          LET k == Len(pgServed)
          IN /\ k >= 1
             /\ IsLastPage(pgServed[k])
             /\ \A i \in 1..(k - 1) : ~IsLastPage(pgServed[i])
             /\ pgRequests = [i \in 1..k |-> [Page |-> i, PageSize |-> pgSize]]
             /\ pgYielded = ConcatData(pgServed)
    /\ pgPc = "running" =>
          /\ \A i \in 1..Len(pgServed) :
                ~IsLastPage(pgServed[i]) /\ pgServed[i].object /\ pgServed[i].data # "nonlist"
          /\ pgRequests = [i \in 1..Len(pgServed) |-> [Page |-> i, PageSize |-> pgSize]]
          /\ pgYielded = ConcatData(pgServed)

\* Three pages were fetched; the first two yielded mappings in both orders
\* around a dropped element, the third ended the iteration.
C9_Witness ==
    /\ pgPc = "done"
    /\ Len(pgServed) = 3
    /\ pgServed[1].items = <<Item(TRUE, 2), Item(TRUE, 1)>>
    /\ pgServed[2].items = <<Item(FALSE, 0), Item(TRUE, 2)>>
    /\ pgServed[3].hasMore = "absent"
    /\ pgYielded = <<Item(TRUE, 2), Item(TRUE, 1), Item(TRUE, 2)>>

\* C15: get_paginated raises ApiError whenever a page's data is not a list,
\* and an answered page makes it raise nothing but ApiError; when a page
\* after the first fails, by this or by an error request gave up on,
\* fetch_updated_invoices raises that error and hands over none of the
\* records of the pages before it.
C15_FailsWithApiErrorAndNoPartialRecords ==
    LET k == Len(pgServed)
    IN /\ (k >= 1 /\ pgServed[k].object /\ pgServed[k].data = "nonlist")
             => (pgPc = "raised" /\ pgError = "ApiError")
       /\ (pgPc = "raised" /\ k = Len(pgRequests)) => pgError = "ApiError"
       /\ pgPc = "raised" =>
             /\ fetched.done
             /\ fetched.error = pgError
             /\ fetched.records = <<>>

\* C21: within one fetch_updated_invoices call the cursor is read once and
\* every attempt of every page sends that updatedSince; a page is requested
\* again only as a retry of a failed attempt of the same page, at most three
\* times in all, and the next page only after the page before it succeeded;
\* every attempt asks get_token for its token, which answers from the cache
\* or renews, and an attempt whose renewal raised is the last.
C21_OneSinceAndPagesInOrder ==
    ftPc # "idle" =>
        /\ ftReads = 1
        /\ \A i \in 1..Len(ftLog) :
              /\ ftLog[i].updatedSince = ftSince
              /\ ftLog[i].token \in {"cache", "renew", "raised"}
              /\ ftLog[i].token = "raised" => (i = Len(ftLog) /\ ftPc = "raised")
              /\ AttemptsOfPage(ftLog, ftLog[i].Page) <= MaxAttempts
        /\ Len(ftLog) > 0 => ftLog[1].Page = 1
        /\ \A i \in 1..(Len(ftLog) - 1) :
              \/ ftLog[i + 1].Page = ftLog[i].Page /\ ftLog[i].failed
              \/ ftLog[i + 1].Page = ftLog[i].Page + 1 /\ ~ftLog[i].failed

\* No cursor is stored; page 1 failed once and was retried a day later, when
\* the default window had moved, with the updatedSince read at the start and
\* the token renewed before; page 2 followed with the cached token.
C21_Witness ==
    /\ ftPc = "done"
    /\ cursorFile = MissingFile
    /\ clock - Lookback > ftSince
    /\ Len(ftLog) = 3
    /\ ftLog[1] = AttemptRecord(1, ftSince, "renew", TRUE)
    /\ ftLog[2] = AttemptRecord(1, ftSince, "cache", FALSE)
    /\ ftLog[3] = AttemptRecord(2, ftSince, "cache", FALSE)

-----------------------------------------------------------------------------
(* What the claims about the cursor store speak of *)

\* C10: load returns an absent cursor, and does not fail, when the file does
\* not exist or its last_sync_utc is missing, not a string or blank; the only
\* failure of load is SyncStateError, raised when the content cannot be
\* parsed; valid JSON of any shape gives a cursor, an absent cursor or
\* SyncStateError.
C10_LoadFailsOnlyWithSyncStateError ==
    loaded.done =>
        /\ loaded.file.k \in {"missing", "obj_no_field", "obj_null", "obj_nonstring", "obj_blank"}
              => loaded.result = NoCursor
        /\ loaded.result.error \in {"none", "SyncStateError"}
        /\ loaded.file.k = "unparsable" => loaded.result.error = "SyncStateError"

\* C11: read_last_sync_utc returns the stored cursor when there is one and
\* otherwise now minus 7 days as of the call, and in both cases leaves the
\* cursor file as it was.
C11_ReadLeavesCursorFile ==
    lastRead.done =>
        /\ lastRead.after = lastRead.file
        /\ lastRead.error = "none" =>
              /\ lastRead.file.k \in {"obj_ts", "obj_ts_frac", "obj_padded"}
                    => lastRead.value = lastRead.file.v
              /\ lastRead.file.k \in {"missing", "obj_no_field", "obj_null", "obj_nonstring",
                                      "obj_blank"}
                    => lastRead.value = lastRead.at - Lookback

\* No cursor is stored, a day has passed since the start, and the default of
\* that day was returned while the file stayed missing.
C11_Witness ==
    /\ lastRead.done
    /\ lastRead.error = "none"
    /\ lastRead.file = MissingFile
    /\ lastRead.at > Lookback
    /\ lastRead.value = lastRead.at - Lookback
    /\ cursorFile = MissingFile

-----------------------------------------------------------------------------
(* What the claims about transform speak of *)

\* The values a record holds under the given keys, a nested entry included.
ValuesUnder(inv, keys) ==
    {inv[key] : key \in keys}
    \cup {RawVal(inv[key].ik, inv[key].v) : key \in {x \in keys : inv[x].k = "dict"}}

TotalKeys == {"total", "totalAmount", "summary"}

InvoiceDateKeys == {"invoiceDate", "date", "createdOn"}

UpdatedAtKeys == {"modifiedOn", "updatedOn", "updatedAt", "updated_at"}

\* Kinds of value that are missing or do not parse as a number / as a date.
NotNumeric == {"absent", "null", "empty", "text", "date", "dict"}

NotDate == {"absent", "null", "empty", "text", "dict"}

\* C12: transform is total: it never raises; the result has the six columns
\* in their fixed order, and one row per record; each row has those six
\* fields; an amount is a number or missing, a date a formatted date or
\* missing; where no alias of the amount (of a date) holds a value that
\* parses, the field is missing; no records give a frame with the six
\* columns and no rows.
C12_TransformTotal ==
    trOut.done =>
        /\ ~trOut.raised
        /\ trOut.columns = RequiredColumns
        /\ Len(trOut.rows) = Len(trIn)
        /\ \A i \in 1..Len(trIn) :
              LET r == trOut.rows[i]
              IN /\ DOMAIN r = {RequiredColumns[j] : j \in 1..Len(RequiredColumns)}
                 /\ trIn[i]["id"].k = "num" => r.invoice_id = Cell("digits", trIn[i]["id"].v)
                 /\ r.total_amount.k \in {"num", "null"}
                 /\ r.invoice_date.k \in {"day", "null"}
                 /\ r.updated_at.k \in {"iso", "null"}
                 /\ (\A x \in ValuesUnder(trIn[i], TotalKeys) : x.k \in NotNumeric)
                       => r.total_amount = NullCell
                 /\ (\A x \in ValuesUnder(trIn[i], InvoiceDateKeys) : x.k \in NotDate)
                       => r.invoice_date = NullCell
                 /\ (\A x \in ValuesUnder(trIn[i], UpdatedAtKeys) : x.k \in NotDate)
                       => r.updated_at = NullCell

\* A record whose only amount is a text that is no number came out with a
\* missing amount, after a complete record.
C12_Witness ==
    /\ trOut.done
    /\ ~trOut.raised
    /\ Len(trIn) = 2
    /\ trIn[1] = FullRecord
    /\ trIn[2]["total"].k = "text"
    /\ trIn[2]["totalAmount"].k = "absent"
    /\ trIn[2]["summary"].k = "absent"
    /\ trOut.rows[1].total_amount = Cell("num", 5)
    /\ trOut.rows[2].total_amount = NullCell

\* The first value of a sequence of alias values that is present (not null),
\* or None when there is none.
RECURSIVE FirstPresent(_)
FirstPresent(values) ==
    IF values = <<>> THEN None
    ELSE IF Head(values).k \notin {"absent", "null"} THEN Head(values)
    ELSE FirstPresent(Tail(values))

\* C14: each field is taken from the first alias, in the field's order, that
\* is present (not null) in the record, also when that value is falsy: the
\* output cell is the conversion of that value.
C14_FirstPresentAliasWins ==
    trOut.done =>
        \A i \in 1..Len(trIn) :
            LET inv == trIn[i]
                r == trOut.rows[i]
            IN /\ r.invoice_id
                    = AsStringCell(FirstPresent(<<Get(inv, "id"), Get(inv, "invoiceId"),
                                                  Get(inv, "invoice_id")>>))
               /\ r.invoice_date
                    = StrftimeDay(ToDatetimeUtc(FirstPresent(<<Get(inv, "invoiceDate"),
                                                               Get(inv, "date"),
                                                               Get(inv, "createdOn")>>)))
               /\ r.business_unit
                    = AsStringCell(FirstPresent(<<SafeGet(inv, "businessUnit", "name"),
                                                  Get(inv, "businessUnitName"),
                                                  Get(inv, "businessUnit")>>))
               /\ r.job_type
                    = AsStringCell(FirstPresent(<<SafeGet(inv, "jobType", "name"),
                                                  Get(inv, "jobTypeName"),
                                                  Get(inv, "jobType")>>))
               /\ r.total_amount
                    = ToNumericCell(FirstPresent(<<Get(inv, "total"), Get(inv, "totalAmount"),
                                                   SafeGet(inv, "summary", "total")>>))
               /\ r.updated_at
                    = StrftimeIso(ToDatetimeUtc(FirstPresent(<<Get(inv, "modifiedOn"),
                                                               Get(inv, "updatedOn"),
                                                               Get(inv, "updatedAt"),
                                                               Get(inv, "updated_at")>>)))

====
